---- MODULE Spec2Model ----
(***************************************************************************)
(* Model of "phase two and three/mm.py": the unittest case                 *)
(* DiscountCodeTest (setUp, test_DC003_attempt_second_discount_code,       *)
(* tearDown) driving a browser against checkout.html.                      *)
(*                                                                         *)
(* The test procedure is a sequential program; every Selenium call is one  *)
(* step, because the page under test runs beside it and may change what    *)
(* the next call reads.  The page is not part of the source: it is the     *)
(* environment, and may show any text of the small domains below at any    *)
(* time.  Texts that the code searches with "in" are sequences of phrases, *)
(* and presence is contiguous containment, as Python's "in" on strings.    *)
(***************************************************************************)
EXTENDS Integers, Sequences, FiniteSets, TLC

\* Number of polls one WebDriverWait.until makes before it gives up: the
\* 10 second ceiling divided by the library's poll interval, abstracted.
MaxPolls == 2

VARIABLES
    fileExists,      \* checkout.html exists on disk
    fileAtStart,     \* history: fileExists when setUp began
    browser,         \* "none" | "open" | "closed"
    launched,        \* number of webdriver.Chrome instances created
    quits,           \* number of driver.quit() calls
    pc,              \* position of the test runner
    polls,           \* failed polls of the wait in progress
    clickable,       \* page: the add-to-cart button is visible and enabled
    subtotal,        \* page: text of #subtotal
    message,         \* page: text of #discount-message
    rowVisible,      \* page: #discount-row is displayed
    amount,          \* page: text of #discount-amount
    total,           \* page: text of #total-price
    inputValue,      \* page: value of #discount-code, a sequence of typed keys
    submitted,       \* history: the input's value at each Apply click
    pending,         \* Apply clicks the page has not reacted to yet
    msgEpoch,        \* history: number of Apply clicks made when message was last written
    spont,           \* history: the page wrote message other than as a reaction to Apply
    errAtSecondClick, \* history: message already contained ERROR at the second Apply click
    errObsEpoch,     \* history: msgEpoch of the message that satisfied the wait of line 98
    initial_discount_amount,
    initial_total_price,
    final_discount_amount,
    final_total_price,
    is_discount_row_visible,
    verdict,         \* "none" | "pass" | "failure" | "error"
    exc,             \* exception type that left setUp or the test method, "" if none
    raisedAt,        \* line where that exception was raised, 0 if none
    timedOutAt,      \* line of the wait that raised TimeoutException, 0 if none
    failMsg,         \* message of the AssertionError, "" if none
    log              \* history: the steps completed, in order

pageVars == <<clickable, subtotal, message, rowVisible, amount, total>>
histVars == <<submitted, pending, msgEpoch, spont, errAtSecondClick, errObsEpoch>>
localVars == <<initial_discount_amount, initial_total_price, final_discount_amount,
               final_total_price, is_discount_row_visible>>
envVars == <<fileExists, fileAtStart, browser, launched, quits>>
outVars == <<verdict, exc, raisedAt, timedOutAt, failMsg>>
vars == <<fileExists, fileAtStart, browser, launched, quits, pc, polls,
          clickable, subtotal, message, rowVisible, amount, total, inputValue,
          submitted, pending, msgEpoch, spont, errAtSecondClick, errObsEpoch,
          initial_discount_amount, initial_total_price, final_discount_amount,
          final_total_price, is_discount_row_visible,
          verdict, exc, raisedAt, timedOutAt, failMsg, log>>

----------------------------------------------------------------------------
(* Texts *)

SUCCESS == "Success: 15% discount applied!"
ERROR == "Error: Invalid discount code."

\* What #discount-message may show: nothing, either phrase, or both.
Messages == { <<>>, <<SUCCESS>>, <<ERROR>>, <<SUCCESS, ERROR>> }
Subtotals == { <<"$0.00">>, <<"$100.00">> }
Amounts == { "-$15.00", "-$25.00" }
Totals == { "$85.00", "$75.00" }
None == "(unset)"

\* Python's  text in element_text : t occurs contiguously in s.
Contains(s, t) ==
    \E i \in 1..(Len(s) - Len(t) + 1) : SubSeq(s, i, i + Len(t) - 1) = t

\* EC.element_to_be_clickable, line 53
ConditionClickable == clickable
\* EC.text_to_be_present_in_element((By.ID, "subtotal"), "$100.00"), line 59
ConditionSubtotal == Contains(subtotal, <<"$100.00">>)
\* EC.text_to_be_present_in_element((By.ID, "discount-message"), SUCCESS), line 71
ConditionSuccess == Contains(message, <<SUCCESS>>)
\* EC.visibility_of_element_located((By.ID, "discount-row")), line 75
ConditionRow == rowVisible
\* Variant of ConditionError: the success text of line 72 pasted into line 99.
ConditionErrorWithSuccessText == Contains(message, <<SUCCESS>>)
\* EC.text_to_be_present_in_element((By.ID, "discount-message"), ERROR), line 98
ConditionError == Contains(message, <<ERROR>>)

BodyPcs == { "L53", "L56", "L59", "L62", "L63", "L65", "L66", "L71", "L75",
             "L81", "L82", "L84", "L85", "L90", "L91", "L92", "L98", "L106",
             "L107", "L108", "L111", "L115", "L119", "L122" }

----------------------------------------------------------------------------
(* unittest's handling of what a test method does *)

Goto(l) == pc' = l /\ polls' = 0

\* The step completed: it is logged and the next line runs.
Done(step, l) ==
    /\ Goto(l)
    /\ log' = Append(log, step)
    /\ UNCHANGED outVars

\* An exception leaves the test method: unittest records a failure for an
\* AssertionError and an error for anything else, then runs tearDown.
Raise(e, msg, line) ==
    /\ verdict' = IF e = "AssertionError" THEN "failure" ELSE "error"
    /\ exc' = e
    /\ failMsg' = msg
    /\ raisedAt' = line
    /\ Goto("tearDown")
    /\ UNCHANGED log

\* A wait outside any try block times out: the TimeoutException leaves the
\* test method as it is.
TimeoutUncaught(line) ==
    Raise("TimeoutException", "", line) /\ timedOutAt' = line

\* A wait inside  try: ... except TimeoutException: self.fail(msg)  times
\* out: the test fails with msg.
TimeoutToFail(msg, line) ==
    Raise("AssertionError", msg, line) /\ timedOutAt' = line

\* A Selenium call outside any wait raises: nothing in the test catches it.
Throw(e, line) == Raise(e, "", line) /\ UNCHANGED timedOutAt

\* Variant of Check: the mismatch is raised as a ValueError instead of
\* through the assert methods.
CheckRaisingValueError(ok, step, l, msg, line) ==
    IF ok THEN Done(step, l)
    ELSE Raise("ValueError", msg, line) /\ UNCHANGED timedOutAt

\* self.assertEqual / self.assertTrue: the next line on success, an
\* AssertionError carrying msg otherwise.
Check(ok, step, l, msg, line) ==
    IF ok THEN Done(step, l)
    ELSE Raise("AssertionError", msg, line) /\ UNCHANGED timedOutAt

\* Variant of Until: a wait that starts over instead of raising when the
\* ceiling is reached.
UntilRetrying(cond, step, l, onTimeout) ==
    IF cond THEN Done(step, l)
    ELSE /\ polls' = (polls + 1) % MaxPolls
         /\ UNCHANGED <<pc, log, outVars>>

\* WebDriverWait(driver, 10).until(condition): poll the condition; return
\* as soon as it holds, sleep and poll again while the ceiling is not
\* reached, and raise TimeoutException once it is.
Until(cond, step, l, onTimeout) ==
    IF cond THEN Done(step, l)
    ELSE IF polls + 1 < MaxPolls
         THEN polls' = polls + 1 /\ UNCHANGED <<pc, log, outVars>>
         ELSE onTimeout

----------------------------------------------------------------------------
Init ==
    /\ fileExists \in BOOLEAN
    /\ fileAtStart = fileExists
    /\ browser = "none"
    /\ launched = 0
    /\ quits = 0
    /\ pc = "setUp"
    /\ polls = 0
    /\ clickable \in BOOLEAN
    /\ subtotal \in Subtotals
    /\ message \in Messages
    /\ rowVisible \in BOOLEAN
    /\ amount \in Amounts
    /\ total \in Totals
    /\ inputValue = <<>>
    /\ submitted = <<>>
    /\ pending = 0
    /\ msgEpoch = 0
    /\ spont = FALSE
    /\ errAtSecondClick = FALSE
    /\ errObsEpoch = -1
    /\ initial_discount_amount = None
    /\ initial_total_price = None
    /\ final_discount_amount = None
    /\ final_total_price = None
    /\ is_discount_row_visible = FALSE
    /\ verdict = "none"
    /\ exc = ""
    /\ raisedAt = 0
    /\ timedOutAt = 0
    /\ failMsg = ""
    /\ log = <<>>

----------------------------------------------------------------------------
(* setUp, lines 14-35, and tearDown, lines 37-42 *)

\* Variant of SetUp_CheckFile: the existence check of lines 22-25 left out.
SetUp_NoFileCheck ==
    /\ pc = "setUp"
    /\ Goto("launch")
    /\ UNCHANGED <<outVars, envVars, pageVars, inputValue, histVars, localVars, log>>

\* Lines 21-25: raise FileNotFoundError when checkout.html is missing.  An
\* exception in setUp is an error of the test; unittest then runs neither
\* the test method nor tearDown.
SetUp_CheckFile ==
    /\ pc = "setUp"
    /\ IF fileExists
       THEN /\ Goto("launch")
            /\ UNCHANGED outVars
       ELSE /\ verdict' = "error"
            /\ exc' = "FileNotFoundError"
            /\ failMsg' = "'checkout.html' not found. Please ensure it is in the same directory as the script."
            /\ raisedAt' = 23
            /\ Goto("done")
            /\ UNCHANGED timedOutAt
    /\ UNCHANGED <<envVars, pageVars, inputValue, histVars, localVars, log>>

\* Lines 27-30: webdriver.Chrome(options=options) starts a browser, or
\* raises when no session can be created.
SetUp_Launch ==
    /\ pc = "launch"
    /\ \/ /\ launched' = launched + 1
          /\ browser' = "open"
          /\ Goto("get")
          /\ UNCHANGED outVars
       \/ /\ verdict' = "error"
          /\ exc' = "WebDriverException"
          /\ failMsg' = ""
          /\ raisedAt' = 30
          /\ Goto("done")
          /\ UNCHANGED <<launched, browser, timedOutAt>>
    /\ UNCHANGED <<fileExists, fileAtStart, quits, pageVars, inputValue,
                   histVars, localVars, log>>

\* Lines 33-35: driver.get("file://...") loads the page, or raises when the
\* file is gone by now; then the WebDriverWait is created.  tearDown is
\* not run for an exception in setUp and nothing else quits the driver.
SetUp_Get ==
    /\ pc = "get"
    /\ IF fileExists
       THEN /\ Goto("L53")
            /\ UNCHANGED outVars
       ELSE /\ verdict' = "error"
            /\ exc' = "WebDriverException"
            /\ failMsg' = ""
            /\ raisedAt' = 34
            /\ Goto("done")
            /\ UNCHANGED timedOutAt
    /\ UNCHANGED <<envVars, pageVars, inputValue, histVars, localVars, log>>

\* Line 42: self.driver.quit(), run by unittest after the test method
\* whatever its outcome.
TearDown ==
    /\ pc = "tearDown"
    /\ quits' = quits + 1
    /\ browser' = "closed"
    /\ Goto("done")
    /\ log' = Append(log, "quit")
    /\ UNCHANGED <<fileExists, fileAtStart, launched, pageVars, inputValue,
                   histVars, localVars, outVars>>

\* The file system beside the script: checkout.html may be removed between
\* the os.path.exists check and the page load.
EnvRemoveFile ==
    /\ pc \in {"launch", "get"}
    /\ fileExists
    /\ fileExists' = FALSE
    /\ UNCHANGED <<fileAtStart, browser, launched, quits, pc, polls, pageVars,
                   inputValue, histVars, localVars, outVars, log>>

----------------------------------------------------------------------------
(* test_DC003_attempt_second_discount_code, lines 44-122 *)

\* What a step of the test leaves alone besides what it names.
Frame(changed) ==
    /\ UNCHANGED envVars
    /\ UNCHANGED pageVars
    /\ IF "input" \in changed THEN TRUE ELSE UNCHANGED inputValue
    /\ IF "click" \in changed THEN TRUE ELSE UNCHANGED <<submitted, pending, errAtSecondClick>>
    /\ UNCHANGED <<msgEpoch, spont>>
    /\ IF "errObs" \in changed THEN TRUE ELSE UNCHANGED errObsEpoch
    /\ IF "initAmt" \in changed THEN TRUE ELSE UNCHANGED initial_discount_amount
    /\ IF "initTot" \in changed THEN TRUE ELSE UNCHANGED initial_total_price
    /\ IF "finAmt" \in changed THEN TRUE ELSE UNCHANGED final_discount_amount
    /\ IF "finTot" \in changed THEN TRUE ELSE UNCHANGED final_total_price
    /\ IF "finRow" \in changed THEN TRUE ELSE UNCHANGED is_discount_row_visible

\* element.send_keys(keys): the keys are appended to the input's value.
SendKeys(keys) == inputValue' = inputValue \o <<keys>>

\* apply_button.click(): the page receives the click with the input's
\* value as it is now.
ClickApply ==
    /\ submitted' = Append(submitted, inputValue)
    /\ errAtSecondClick' = (Len(submitted) = 1 /\ Contains(message, <<ERROR>>))
    /\ pending' = pending + 1

\* Lines 53-55: wait for the add-to-cart button; not inside any try.
L53_WaitClickable ==
    /\ pc = "L53"
    /\ Until(ConditionClickable, "wait53", "L56", TimeoutUncaught(53))
    /\ Frame({})

\* Line 56: add_keyboard_button.click()
L56_ClickAdd ==
    /\ pc = "L56"
    /\ \/ Done("click56", "L59")
       \/ \E e \in {"StaleElementReferenceException", "ElementClickInterceptedException"} :
             Throw(e, 56)
    /\ Frame({})

\* Line 59: wait for the subtotal; not inside any try.
L59_WaitSubtotal ==
    /\ pc = "L59"
    /\ Until(ConditionSubtotal, "wait59", "L62", TimeoutUncaught(59))
    /\ Frame({})

\* Line 62: find_element(By.ID, "discount-code")
L62_FindInput ==
    /\ pc = "L62"
    /\ \/ Done("find62", "L63")
       \/ Throw("NoSuchElementException", 62)
    /\ Frame({})

\* Line 63: find_element(By.XPATH, "//button[text()='Apply']")
L63_FindApply ==
    /\ pc = "L63"
    /\ \/ Done("find63", "L65")
       \/ Throw("NoSuchElementException", 63)
    /\ Frame({})

\* Line 65: discount_input.send_keys("SAVE15")
L65_TypeFirst ==
    /\ pc = "L65"
    /\ \/ Done("keys65", "L66") /\ SendKeys("SAVE15")
       \/ Throw("StaleElementReferenceException", 65) /\ UNCHANGED inputValue
    /\ Frame({"input"})

\* Line 66: apply_button.click()
L66_ClickFirst ==
    /\ pc = "L66"
    /\ \/ Done("click66", "L71") /\ ClickApply
       \/ /\ \E e \in {"StaleElementReferenceException", "ElementClickInterceptedException"} :
                Throw(e, 66)
          /\ UNCHANGED <<submitted, pending, errAtSecondClick>>
    /\ Frame({"click"})

\* Lines 69-73 and 76-77: wait for the success message, inside the try.
L71_WaitSuccess ==
    /\ pc = "L71"
    /\ Until(ConditionSuccess, "wait71", "L75",
             TimeoutToFail("The initial 'SAVE15' discount code did not apply successfully.", 71))
    /\ Frame({})

\* Lines 75-77: wait for the discount row, inside the same try.
L75_WaitRow ==
    /\ pc = "L75"
    /\ Until(ConditionRow, "wait75", "L81",
             TimeoutToFail("The initial 'SAVE15' discount code did not apply successfully.", 75))
    /\ Frame({})

\* Line 81: initial_discount_amount = find_element(By.ID, "discount-amount").text
L81_ReadInitialAmount ==
    /\ pc = "L81"
    /\ \/ Done("read81", "L82") /\ initial_discount_amount' = amount
       \/ /\ \E e \in {"NoSuchElementException", "StaleElementReferenceException"} :
                Throw(e, 81)
          /\ UNCHANGED initial_discount_amount
    /\ Frame({"initAmt"})

\* Line 82: initial_total_price = find_element(By.ID, "total-price").text
L82_ReadInitialTotal ==
    /\ pc = "L82"
    /\ \/ Done("read82", "L84") /\ initial_total_price' = total
       \/ /\ \E e \in {"NoSuchElementException", "StaleElementReferenceException"} :
                Throw(e, 82)
          /\ UNCHANGED initial_total_price
    /\ Frame({"initTot"})

\* Variant of L84_AssertAmount: the assertion of line 84 left out.
L84_AmountNotAsserted ==
    /\ pc = "L84"
    /\ Done("assert84", "L85")
    /\ Frame({})

\* Line 84: assertEqual("-$15.00", initial_discount_amount, ...)
L84_AssertAmount ==
    /\ pc = "L84"
    /\ Check(initial_discount_amount = "-$15.00", "assert84", "L85",
             "Discount amount for SAVE15 is incorrect.", 84)
    /\ Frame({})

\* Variant of L85_AssertTotal: the assertion of line 85 left out.
L85_TotalNotAsserted ==
    /\ pc = "L85"
    /\ Done("assert85", "L90")
    /\ Frame({})

\* Line 85: assertEqual("$85.00", initial_total_price, ...)
L85_AssertTotal ==
    /\ pc = "L85"
    /\ Check(initial_total_price = "$85.00", "assert85", "L90",
             "Total price after SAVE15 is incorrect.", 85)
    /\ Frame({})

\* Variant of L90_Clear: the input is not cleared before the second code.
L90_NotCleared ==
    /\ pc = "L90"
    /\ \/ Done("clear90", "L91") /\ UNCHANGED inputValue
       \/ Throw("StaleElementReferenceException", 90) /\ UNCHANGED inputValue
    /\ Frame({"input"})

\* Line 90: discount_input.clear()
L90_Clear ==
    /\ pc = "L90"
    /\ \/ Done("clear90", "L91") /\ inputValue' = <<>>
       \/ Throw("StaleElementReferenceException", 90) /\ UNCHANGED inputValue
    /\ Frame({"input"})

\* Line 91: discount_input.send_keys("EXTRA10")
L91_TypeSecond ==
    /\ pc = "L91"
    /\ \/ Done("keys91", "L92") /\ SendKeys("EXTRA10")
       \/ Throw("StaleElementReferenceException", 91) /\ UNCHANGED inputValue
    /\ Frame({"input"})

\* Line 92: apply_button.click()
L92_ClickSecond ==
    /\ pc = "L92"
    /\ \/ Done("click92", "L98") /\ ClickApply
       \/ /\ \E e \in {"StaleElementReferenceException", "ElementClickInterceptedException"} :
                Throw(e, 92)
          /\ UNCHANGED <<submitted, pending, errAtSecondClick>>
    /\ Frame({"click"})

\* Lines 97-102: wait for the error message, inside a try.
L98_WaitError ==
    /\ pc = "L98"
    /\ Until(ConditionError, "wait98", "L106",
             TimeoutToFail("Error message for the second invalid code was not displayed.", 98))
    /\ errObsEpoch' = IF pc' = "L106" THEN msgEpoch ELSE errObsEpoch
    /\ Frame({"errObs"})

\* Line 106: final_discount_amount = find_element(By.ID, "discount-amount").text
L106_ReadFinalAmount ==
    /\ pc = "L106"
    /\ \/ Done("read106", "L107") /\ final_discount_amount' = amount
       \/ /\ \E e \in {"NoSuchElementException", "StaleElementReferenceException"} :
                Throw(e, 106)
          /\ UNCHANGED final_discount_amount
    /\ Frame({"finAmt"})

\* Line 107: final_total_price = find_element(By.ID, "total-price").text
L107_ReadFinalTotal ==
    /\ pc = "L107"
    /\ \/ Done("read107", "L108") /\ final_total_price' = total
       \/ /\ \E e \in {"NoSuchElementException", "StaleElementReferenceException"} :
                Throw(e, 107)
          /\ UNCHANGED final_total_price
    /\ Frame({"finTot"})

\* Line 108: is_discount_row_visible = find_element(By.ID, "discount-row").is_displayed()
L108_ReadFinalRow ==
    /\ pc = "L108"
    /\ \/ Done("read108", "L111") /\ is_discount_row_visible' = rowVisible
       \/ /\ \E e \in {"NoSuchElementException", "StaleElementReferenceException"} :
                Throw(e, 108)
          /\ UNCHANGED is_discount_row_visible
    /\ Frame({"finRow"})

\* Lines 111-112: assertTrue(is_discount_row_visible, ...)
L111_AssertRow ==
    /\ pc = "L111"
    /\ Check(is_discount_row_visible, "assert111", "L115",
             "Expected Result Fail: The discount summary row disappeared after attempting a second code.", 111)
    /\ Frame({})

\* Variant of L115_AssertAmountKept: the initial amount compared with itself.
L115_ComparesInitialWithItself ==
    /\ pc = "L115"
    /\ Check(initial_discount_amount = initial_discount_amount, "assert115", "L119",
             "Expected Result Fail: Discount amount changed.", 115)
    /\ Frame({})

\* Lines 115-116: assertEqual(initial_discount_amount, final_discount_amount, ...)
L115_AssertAmountKept ==
    /\ pc = "L115"
    /\ Check(initial_discount_amount = final_discount_amount, "assert115", "L119",
             "Expected Result Fail: Discount amount changed.", 115)
    /\ Frame({})

\* Lines 119-120: assertEqual(initial_total_price, final_total_price, ...)
L119_AssertTotalKept ==
    /\ pc = "L119"
    /\ Check(initial_total_price = final_total_price, "assert119", "L122",
             "Expected Result Fail: Total price changed.", 119)
    /\ Frame({})

\* Line 122: print(...); the test method returns: the test passed.
L122_Passed ==
    /\ pc = "L122"
    /\ verdict' = "pass"
    /\ Goto("tearDown")
    /\ log' = Append(log, "print122")
    /\ UNCHANGED <<exc, raisedAt, timedOutAt, failMsg>>
    /\ Frame({})

----------------------------------------------------------------------------
(* The page under test, checkout.html: the environment of the test *)

PageActive == pc \in BodyPcs

PageFrame ==
    UNCHANGED <<envVars, pc, polls, inputValue, submitted, errAtSecondClick,
                errObsEpoch, localVars, outVars, log>>

\* The add-to-cart button becomes, or stops being, clickable.
PageSetClickable ==
    /\ PageActive
    /\ clickable' = ~clickable
    /\ UNCHANGED <<subtotal, message, rowVisible, amount, total, pending, msgEpoch, spont>>
    /\ PageFrame

\* The page rewrites #subtotal.
PageSetSubtotal ==
    /\ PageActive
    /\ subtotal' \in Subtotals \ {subtotal}
    /\ UNCHANGED <<clickable, message, rowVisible, amount, total, pending, msgEpoch, spont>>
    /\ PageFrame

\* The page rewrites the order summary: #discount-row, #discount-amount, #total-price.
PageSetSummary ==
    /\ PageActive
    /\ \E r \in BOOLEAN, a \in Amounts, t \in Totals :
          /\ <<r, a, t>> # <<rowVisible, amount, total>>
          /\ rowVisible' = r
          /\ amount' = a
          /\ total' = t
    /\ UNCHANGED <<clickable, subtotal, message, pending, msgEpoch, spont>>
    /\ PageFrame

\* The page reacts to an Apply click it has received: it writes #discount-message.
PageReactToApply ==
    /\ PageActive
    /\ pending > 0
    /\ pending' = pending - 1
    /\ message' \in Messages
    /\ msgEpoch' = Len(submitted)
    /\ UNCHANGED <<clickable, subtotal, rowVisible, amount, total, spont>>
    /\ PageFrame

\* The page rewrites #discount-message on its own (a timer, another handler).
PageSetMessage ==
    /\ PageActive
    /\ message' \in Messages \ {message}
    /\ msgEpoch' = Len(submitted)
    /\ spont' = TRUE
    /\ UNCHANGED <<clickable, subtotal, rowVisible, amount, total, pending>>
    /\ PageFrame

----------------------------------------------------------------------------
Next ==
    \/ SetUp_CheckFile
    \/ SetUp_Launch
    \/ SetUp_Get
    \/ TearDown
    \/ EnvRemoveFile
    \/ L53_WaitClickable
    \/ L56_ClickAdd
    \/ L59_WaitSubtotal
    \/ L62_FindInput
    \/ L63_FindApply
    \/ L65_TypeFirst
    \/ L66_ClickFirst
    \/ L71_WaitSuccess
    \/ L75_WaitRow
    \/ L81_ReadInitialAmount
    \/ L82_ReadInitialTotal
    \/ L84_AssertAmount
    \/ L85_AssertTotal
    \/ L90_Clear
    \/ L91_TypeSecond
    \/ L92_ClickSecond
    \/ L98_WaitError
    \/ L106_ReadFinalAmount
    \/ L107_ReadFinalTotal
    \/ L108_ReadFinalRow
    \/ L111_AssertRow
    \/ L115_AssertAmountKept
    \/ L119_AssertTotalKept
    \/ L122_Passed
    \/ PageSetClickable
    \/ PageSetSubtotal
    \/ PageSetSummary
    \/ PageReactToApply
    \/ PageSetMessage

\* One step of the test runner: setUp, the test method, tearDown.
Runner ==
    \/ SetUp_CheckFile \/ SetUp_Launch \/ SetUp_Get \/ TearDown
    \/ L53_WaitClickable \/ L56_ClickAdd \/ L59_WaitSubtotal \/ L62_FindInput
    \/ L63_FindApply \/ L65_TypeFirst \/ L66_ClickFirst \/ L71_WaitSuccess
    \/ L75_WaitRow \/ L81_ReadInitialAmount \/ L82_ReadInitialTotal
    \/ L84_AssertAmount \/ L85_AssertTotal \/ L90_Clear \/ L91_TypeSecond
    \/ L92_ClickSecond \/ L98_WaitError \/ L106_ReadFinalAmount
    \/ L107_ReadFinalTotal \/ L108_ReadFinalRow \/ L111_AssertRow
    \/ L115_AssertAmountKept \/ L119_AssertTotalKept \/ L122_Passed

Spec == Init /\ [][Next]_vars

\* The runner is a single thread of blocking calls, each of which returns or
\* raises: it always takes its next step.
FairSpec == Init /\ [][Next]_vars /\ WF_vars(Runner)

----------------------------------------------------------------------------
(* Properties *)

\* Position of a completed step in the log, 0 when it has not completed.
Pos(step) ==
    IF \E i \in 1..Len(log) : log[i] = step
    THEN CHOOSE i \in 1..Len(log) : log[i] = step
    ELSE 0

Before(a, b) == Pos(a) > 0 /\ Pos(a) < Pos(b)

Finished == pc = "done"

\* C1: the test passes only if, after "EXTRA10" was submitted, the status
\* message was seen to contain the error text and the discount amount, the
\* total and the row's visibility read afterwards equal those of the SAVE15
\* state: row visible, amount and total as read after SAVE15 was applied.
C1_PassOnlyIfSave15StateKept ==
    verdict = "pass" =>
        /\ Len(submitted) = 2 /\ submitted[2] = <<"EXTRA10">>
        /\ Before("click92", "wait98")
        /\ Before("wait98", "read106")
        /\ Before("wait98", "read107")
        /\ Before("wait98", "read108")
        /\ Before("wait75", "click92")
        /\ Before("read81", "click92") /\ Before("read82", "click92")
        /\ is_discount_row_visible = TRUE
        /\ final_discount_amount = initial_discount_amount
        /\ final_total_price = initial_total_price

C1_Witness == Finished /\ verdict = "pass" /\ quits = 1

\* C2: "EXTRA10" is typed and submitted only after the subtotal, the success
\* message, the visible discount row, the amount "-$15.00" and the total
\* "$85.00" were observed, in this order; a run in which one of them is not
\* observed ends not passed and never submits the second code.
Save15Observed ==
    /\ Before("wait59", "wait71")
    /\ Before("wait71", "wait75")
    /\ Before("wait75", "assert84")
    /\ Before("assert84", "assert85")
    /\ initial_discount_amount = "-$15.00"
    /\ initial_total_price = "$85.00"

C2_SecondCodeOnlyAfterSave15 ==
    /\ (Pos("keys91") > 0 \/ Len(submitted) = 2 \/ pc \in {"L91", "L92"}) =>
           Save15Observed /\ (Pos("keys91") > 0 => Before("assert85", "keys91"))
    /\ (Finished /\ ~Save15Observed) =>
           verdict # "pass" /\ Len(submitted) < 2 /\ Pos("keys91") = 0

C2_Witness == Pos("click92") > 0 /\ submitted[2] = <<"EXTRA10">>

\* C3: every wait that times out ends the run as a test failure with a
\* descriptive message; no raw TimeoutException leaves the test method.
C3_TimeoutsBecomeFailures ==
    timedOutAt # 0 =>
        verdict = "failure" /\ exc = "AssertionError" /\ failMsg # ""

\* C4: when checkout.html is missing as setUp starts, setUp raises
\* FileNotFoundError before any browser is launched and no step of the test
\* body is ever run.
C4_MissingFixtureAbortsSetUp ==
    ~fileAtStart =>
        /\ launched = 0 /\ browser = "none"
        /\ pc \in {"setUp", "done"}
        /\ log = <<>> /\ submitted = <<>> /\ inputValue = <<>>
        /\ Finished => verdict = "error" /\ exc = "FileNotFoundError" /\ raisedAt = 23

C4_Witness == ~fileAtStart /\ Finished /\ exc = "FileNotFoundError"

\* C5: every run that launched a browser has quit it exactly once when the
\* run is over, whatever the outcome, an error in setUp after the launch
\* included.
C5_EveryBrowserIsQuit ==
    (Finished /\ launched > 0) => quits = launched /\ browser = "closed"

WebDriverExceptions ==
    { "WebDriverException", "NoSuchElementException",
      "StaleElementReferenceException", "ElementClickInterceptedException" }

C7_EveryRunTerminates ==
    /\ <>(Finished /\ verdict # "none")
    /\ [](polls < MaxPolls)
    /\ [][timedOutAt' # 0 => pc' \in {"tearDown", "done"}]_vars

C7_Witness == Finished /\ timedOutAt = 98 /\ verdict = "failure"

\* C8: the input holds exactly "SAVE15" at the first Apply click and exactly
\* "EXTRA10" at the second, never a concatenation: it is cleared in between.
C8_SubmittedValues ==
    /\ Len(submitted) >= 1 => submitted[1] = <<"SAVE15">>
    /\ Len(submitted) >= 2 => submitted[2] = <<"EXTRA10">>
    /\ Len(submitted) <= 2

C8_Witness == Len(submitted) = 2 /\ inputValue = <<"EXTRA10">>

FinalsRead == Pos("read106") > 0 \/ Pos("read107") > 0 \/ Pos("read108") > 0

\* C9 as stated: the final reads follow the successful wait for the error
\* text, and if the page writes the status message only in reaction to an
\* Apply click, the message that satisfied that wait was written after the
\* second Apply click.
C9_ErrorSeenIsSecondReaction ==
    /\ FinalsRead => Before("wait98", "read106")
    /\ (Pos("wait98") > 0 /\ ~spont) => errObsEpoch = 2

\* C9 as amended: the same, provided also that the message on display at
\* the second Apply click does not already contain the error text.
C9_ErrorSeenIsSecondReactionUnlessStale ==
    /\ FinalsRead => Before("wait98", "read106")
    /\ (Pos("wait98") > 0 /\ ~spont /\ ~errAtSecondClick) => errObsEpoch = 2

\* The wait was satisfied by the page's reaction to the second click, the
\* test passed, and the page rewrote the amount only after the final reads.
C9_Witness ==
    /\ verdict = "pass" /\ ~spont /\ ~errAtSecondClick /\ errObsEpoch = 2
    /\ amount # final_discount_amount

\* C10: whenever the test passes, the amount read after the second attempt
\* is exactly "-$15.00" and the total read after it exactly "$85.00".
C10_PassPinsLiteralValues ==
    verdict = "pass" =>
        final_discount_amount = "-$15.00" /\ final_total_price = "$85.00"

C10_Witness ==
    /\ pc = "tearDown" /\ verdict = "pass"
    /\ final_discount_amount = "-$15.00" /\ final_total_price = "$85.00"

====
